---- MODULE Spec2Model ----
(***************************************************************************)
(* A model of bounoable/timefn: the Period interval algebra (period.go)    *)
(* over the comparison helpers of timefn.go.                               *)
(*                                                                         *)
(* An instant (time.Time) is an integer count of nanoseconds relative to   *)
(* the zero instant (January 1, year 1, 00:00:00 UTC), which is 0.         *)
(* time.Time also represents instants before the zero instant; they are   *)
(* the negative integers.  A time.Duration is an integer of nanoseconds.   *)
(* A slice is a sequence; a nil slice and an empty slice are both << >>.   *)
(*                                                                         *)
(* The library is a set of functions; the state is what a caller holds:    *)
(* the receiver p, the slice args it passes (whose backing array the       *)
(* callee shares), the other period p2, the step, and what the last call   *)
(* returned.                                                               *)
(***************************************************************************)
EXTENDS Integers, Sequences, FiniteSets

VARIABLES
    p,       \* the receiver Period of the call
    args,    \* the caller's slice of Periods (cut ... / periods)
    given,   \* the contents of args when the last call was made
    p2,      \* the other Period of OverlapsWithStep
    step,    \* the step of the last call
    op,      \* the last operation called ("none" before the first)
    result,  \* the []Period the last call returned
    ok,      \* the bool the last call returned
    year,    \* the year passed to InYearStep
    pred,    \* the predicate passed to SliceDatesStep
    years,   \* the []int YearsStep returned
    dates,   \* the []time.Time DatesStep returned
    before,  \* the first Period SliceDatesStep returned
    after,   \* the second Period SliceDatesStep returned
    at,      \* the instant passed to Contains / ContainsInclusive
    err,     \* the error Validate returned
    loop,    \* the run of the loop of DatesStep: its place and its locals
    calls    \* the concurrent calls of Cut: for each, its place and its locals

vars == <<p, args, given, p2, step, op, result, ok, year, pred, years, dates, before, after,
          at, err, loop, calls>>

\* what only the stepwise runs read and write
runVars == <<at, err, loop, calls>>

\* what the calls on periods and slices of periods neither read nor write
calVars == <<year, pred, years, dates, before, after, runVars>>

----------------------------------------------------------------------------
(* Bounds of the model *)

\* instants range from PreZero nanoseconds before the zero instant to MaxT
\* nanoseconds after it
PreZero == 2
MaxT == 6
\* the caller's slice holds at most MaxCuts periods
MaxCuts == 2
\* steps range over -MaxStep..MaxStep
MaxStep == 2
\* the calendar of the model: a day lasts DayLen instants, a year YearDays
\* days; the receivers of the calendar operations reach up to the instant
\* MaxCal
DayLen == 3
YearDays == 2
MaxCal == 13

Nanosecond == 1

MinT == 0 - PreZero
Time == MinT..MaxT
Steps == (0 - MaxStep)..MaxStep

----------------------------------------------------------------------------
(* time.Time and time.Duration *)

IsZeroTime(t) == t = 0
Before(t, u) == t < u
After(t, u) == t > u
Equal(t, u) == t = u
Add(t, d) == t + d

(* timefn.go *)
SameOrBefore(t, r) == Equal(t, r) \/ Before(t, r)
SameOrAfter(t, l) == Equal(t, l) \/ After(t, l)
BetweenInclusive(t, l, r) == SameOrBefore(t, r) /\ SameOrAfter(t, l)

----------------------------------------------------------------------------
(* Period *)

Period(s, e) == [Start |-> s, End |-> e]
ZeroPeriod == Period(0, 0)
Periods == {Period(s, e) : s \in Time, e \in Time}

IsZero(q) == IsZeroTime(q.Start) /\ IsZeroTime(q.End)

\* Validate that tests End for zero before Start
Validate_endFirst(q) ==
    IF IsZeroTime(q.End) THEN "end is zero"
    ELSE IF IsZeroTime(q.Start) THEN "start is zero"
    ELSE IF Equal(q.End, q.Start) THEN "end must be after start; is the same"
    ELSE IF Before(q.End, q.Start) THEN "end is before start"
    ELSE "nil"

\* The error Validate returns, "nil" for none.
Validate(q) ==
    IF IsZeroTime(q.Start) THEN "start is zero"
    ELSE IF IsZeroTime(q.End) THEN "end is zero"
    ELSE IF Equal(q.End, q.Start) THEN "end must be after start; is the same"
    ELSE IF Before(q.End, q.Start) THEN "end is before start"
    ELSE "nil"

\* math.Abs of the float64 of the step; exact for |step| < 2^53 ns.
absoluteStep(s) == IF s < 0 THEN 0 - s ELSE s

OverlapsWithStep_noShrink(q, s, q2) ==
    IF IsZero(q) \/ IsZero(q2) THEN FALSE
    ELSE \/ BetweenInclusive(q.Start, q2.Start, q2.End)
         \/ BetweenInclusive(q.End, q2.Start, q2.End)
         \/ BetweenInclusive(q2.Start, q.Start, q.End)
         \/ BetweenInclusive(q2.End, q.Start, q.End)

\* OverlapsWithStep that takes the step off the End of q only
OverlapsWithStep_halfShrink(q, s, q2) ==
    IF IsZero(q) \/ IsZero(q2) THEN FALSE
    ELSE LET st == absoluteStep(s)
             pEnd == Add(q.End, 0 - st)
         IN  \/ BetweenInclusive(q.Start, q2.Start, q2.End)
             \/ BetweenInclusive(pEnd, q2.Start, q2.End)
             \/ BetweenInclusive(q2.Start, q.Start, pEnd)
             \/ BetweenInclusive(q2.End, q.Start, pEnd)

\* OverlapsWithStep with its first two tests only
OverlapsWithStep_oneWay(q, s, q2) ==
    IF IsZero(q) \/ IsZero(q2) THEN FALSE
    ELSE LET st == absoluteStep(s)
             pEnd == Add(q.End, 0 - st)
             p2End == Add(q2.End, 0 - st)
         IN  \/ BetweenInclusive(q.Start, q2.Start, p2End)
             \/ BetweenInclusive(pEnd, q2.Start, p2End)

OverlapsWithStep(q, s, q2) ==
    IF IsZero(q) \/ IsZero(q2) THEN FALSE
    ELSE LET st == absoluteStep(s)
             pEnd == Add(q.End, 0 - st)
             p2End == Add(q2.End, 0 - st)
         IN  \/ BetweenInclusive(q.Start, q2.Start, p2End)
             \/ BetweenInclusive(pEnd, q2.Start, p2End)
             \/ BetweenInclusive(q2.Start, q.Start, pEnd)
             \/ BetweenInclusive(p2End, q.Start, pEnd)

OverlapsWith(q, q2) == OverlapsWithStep(q, Nanosecond, q2)

\* Contains with SameOrAfter for After
Contains_closed(q, t) == SameOrBefore(q.Start, t) /\ SameOrAfter(q.End, t)

Contains(q, t) == SameOrBefore(q.Start, t) /\ After(q.End, t)

ContainsInclusive(q, t) == SameOrBefore(q.Start, t) /\ SameOrAfter(q.End, t)

----------------------------------------------------------------------------
(* Period.cut: one cut c taken out of one period r *)

\* the two "return nil, true" tests
cutCovers(r, c) ==
    \/ ~IsZeroTime(c.Start) /\ SameOrBefore(c.Start, r.Start) /\ SameOrAfter(c.End, r.End)
    \/ ~IsZeroTime(c.End) /\ SameOrAfter(c.End, r.End) /\ SameOrBefore(c.Start, r.Start)

\* cutMisses without its tests for an unbounded side
cutMisses_noZero(r, c) == Before(r.End, c.Start) \/ After(r.Start, c.End)

\* the "return []Period{p}, false" test
cutMisses(r, c) ==
    \/ ~IsZeroTime(c.Start) /\ Before(r.End, c.Start)
    \/ ~IsZeroTime(c.End) /\ After(r.Start, c.End)

beforeStart(r, c) == ~IsZeroTime(c.Start) /\ Before(r.Start, c.Start)

\* afterEnd without its test for an unbounded End
afterEnd_noZero(r, c) == After(r.End, c.End)

\* afterEnd with SameOrAfter for After
afterEnd_orSame(r, c) == ~IsZeroTime(c.End) /\ SameOrAfter(r.End, c.End)

afterEnd(r, c) == ~IsZeroTime(c.End) /\ After(r.End, c.End)

\* the pair cut returns: the fragments and whether r was cut
cut(r, c) ==
    IF cutCovers(r, c) THEN [frags |-> << >>, ok |-> TRUE]
    ELSE IF cutMisses(r, c) THEN [frags |-> <<r>>, ok |-> FALSE]
    ELSE IF beforeStart(r, c) /\ afterEnd(r, c)
         THEN [frags |-> <<Period(r.Start, c.Start), Period(c.End, r.End)>>, ok |-> TRUE]
    ELSE IF beforeStart(r, c) THEN [frags |-> <<Period(r.Start, c.Start)>>, ok |-> TRUE]
    ELSE IF afterEnd(r, c) THEN [frags |-> <<Period(c.End, r.End)>>, ok |-> TRUE]
    ELSE [frags |-> <<r>>, ok |-> FALSE]

----------------------------------------------------------------------------
(* Sorting by Start.  slices.SortFunc (Cut) and sort.Slice (MergeStep) run  *)
(* pdqsort, which for a slice of at most 12 elements is this insertion     *)
(* sort: an element moves left while its Start is before its left          *)
(* neighbour's, so elements of equal Start keep their order.  Every slice  *)
(* of the model is shorter than that.                                      *)

swap(s, i, j) == [s EXCEPT ![i] = s[j], ![j] = s[i]]

RECURSIVE sinkLeft(_, _)
\* the inner loop: s[j] moves left while it is less than its left neighbour
sinkLeft(s, j) ==
    IF j > 1 /\ Before(s[j].Start, s[j - 1].Start)
    THEN sinkLeft(swap(s, j, j - 1), j - 1)
    ELSE s

RECURSIVE insertionSort(_, _)
\* the outer loop, from element i on
insertionSort(s, i) ==
    IF i > Len(s) THEN s ELSE insertionSort(sinkLeft(s, i), i + 1)

\* the slice left in the order it was given
SortByStart_asGiven(s) == s

\* the slice after the sort by Start
SortByStart(s) == insertionSort(s, 2)

----------------------------------------------------------------------------
(* Period.Cut: the loops over the sorted cuts and the remaining periods *)

RECURSIVE cutEach_dropUncut(_, _)
\* cutEach without the append of a period the cut left alone
cutEach_dropUncut(remaining, c) ==
    IF remaining = << >> THEN << >>
    ELSE LET r == Head(remaining)
             res == cut(r, c)
         IN  (IF res.ok THEN res.frags ELSE << >>) \o cutEach_dropUncut(Tail(remaining), c)

RECURSIVE cutEach(_, _)
\* the inner loop: newRemaining for one cut c
cutEach(remaining, c) ==
    IF remaining = << >> THEN << >>
    ELSE LET r == Head(remaining)
             res == cut(r, c)
         IN  (IF res.ok THEN res.frags ELSE <<r>>) \o cutEach(Tail(remaining), c)

RECURSIVE cutLoop(_, _)
\* the outer loop: remaining after every cut of the sorted slice
cutLoop(remaining, cuts) ==
    IF cuts = << >> THEN remaining
    ELSE cutLoop(cutEach(remaining, Head(cuts)), Tail(cuts))

\* slice.Map, fn a function on periods
Map(s, fn) == IF s = << >> THEN << >> ELSE [i \in 1..Len(s) |-> fn[s[i]]]

\* the periods the functions of CutInclusive are applied to
Shiftable == [Start : (MinT - Nanosecond)..(MaxT + Nanosecond),
              End : (MinT - Nanosecond)..(MaxT + Nanosecond)]

\* the function CutInclusive maps over the cuts
endForward ==
    [q \in Shiftable |->
        IF ~IsZeroTime(q.End) THEN Period(q.Start, Add(q.End, Nanosecond)) ELSE q]

\* the function CutInclusive maps over the result
endBack == [q \in Shiftable |-> Period(q.Start, Add(q.End, 0 - Nanosecond))]

\* what q.Cut(cs...) returns
CutResult(q, cs) == cutLoop(<<q>>, SortByStart(cs))

\* CutInclusiveResult without the shift back of the Ends of the result
CutInclusiveResult_noBack(q, cs) ==
    LET periodEndZero == IsZeroTime(q.End)
        q1 == IF ~periodEndZero THEN Period(q.Start, Add(q.End, Nanosecond)) ELSE q
        cs1 == Map(cs, endForward)
    IN  CutResult(q1, cs1)

\* what q.CutInclusive(cs...) returns
CutInclusiveResult(q, cs) ==
    LET periodEndZero == IsZeroTime(q.End)
        q1 == IF ~periodEndZero THEN Period(q.Start, Add(q.End, Nanosecond)) ELSE q
        cs1 == Map(cs, endForward)
        res == CutResult(q1, cs1)
    IN  IF ~periodEndZero THEN Map(res, endBack) ELSE res

----------------------------------------------------------------------------
(* Period.MergeStep *)

\* maxTime that always returns its first argument
maxTime_first(a, b) == a

\* maxTime that always returns its second argument
maxTime_second(a, b) == b

maxTime(a, b) == IF After(a, b) THEN a ELSE b

RECURSIVE mergeLoop_keepAll(_, _, _)
\* mergeLoop that appends every period that does not overlap the last entry
mergeLoop_keepAll(merged, rest, s) ==
    IF rest = << >> THEN merged
    ELSE LET q == Head(rest)
             n == Len(merged)
             last == merged[n]
         IN  IF OverlapsWithStep(last, s, q)
             THEN mergeLoop_keepAll([merged EXCEPT ![n].End = maxTime(last.End, q.End)],
                                    Tail(rest), s)
             ELSE mergeLoop_keepAll(Append(merged, q), Tail(rest), s)

RECURSIVE mergeLoop(_, _, _)
\* the sweep over periods[1:] with the merged slice so far
mergeLoop(merged, rest, s) ==
    IF rest = << >> THEN merged
    ELSE LET q == Head(rest)
             n == Len(merged)
             last == merged[n]
         IN  IF OverlapsWithStep(last, s, q)
             THEN mergeLoop([merged EXCEPT ![n].End = maxTime(last.End, q.End)], Tail(rest), s)
             ELSE IF SameOrBefore(last.End, q.Start)
             THEN mergeLoop(Append(merged, q), Tail(rest), s)
             ELSE mergeLoop(merged, Tail(rest), s)

\* MergeStepResult without the sort
MergeStepResult_noSort(q, s, periods) ==
    IF Len(periods) = 0 THEN <<q>>
    ELSE mergeLoop(<<q>>, periods, s)

\* what q.MergeStep(s, periods) returns
MergeStepResult(q, s, periods) ==
    IF Len(periods) = 0 THEN <<q>>
    ELSE LET sorted == SortByStart(<<q>> \o periods)
         IN  mergeLoop(<<sorted[1]>>, Tail(sorted), s)

----------------------------------------------------------------------------
(* The calendar, in UTC: the zero instant is the start of a day and of     *)
(* year 1; every day lasts DayLen instants and every year YearDays days.   *)

YearLen == DayLen * YearDays

\* floor(a / b) for b > 0
FloorDiv(a, b) == (a - (a % b)) \div b

\* time.Time.Year
Year(t) == 1 + FloorDiv(t, YearLen)

\* timefn.StartOfDay
StartOfDay(t) == t - (t % DayLen)

\* t.AddDate(0, 0, days)
AddDays(t, days) == t + days * DayLen

\* the first instant of year y
StartOfYear(y) == (y - 1) * YearLen

----------------------------------------------------------------------------
(* Period.YearsStep, Period.InYearStep *)

\* YearsStep without the swap of min and max
YearsStep_noSwap(q, s) ==
    LET min == Year(q.Start)
        max == Year(Add(q.End, 0 - absoluteStep(s)))
    IN  IF min = max THEN <<min>>
        ELSE IF max < min THEN << >>
        ELSE [i \in 1..((max - min) + 1) |-> min + (i - 1)]

\* YearsStep that reads the year of End without taking the step off
YearsStep_noStep(q, s) ==
    LET y1 == Year(q.Start)
        y2 == Year(q.End)
        min == IF y1 > y2 THEN y2 ELSE y1
        max == IF y1 > y2 THEN y1 ELSE y2
    IN  IF min = max THEN <<min>>
        ELSE [i \in 1..((max - min) + 1) |-> min + (i - 1)]

YearsStep(q, s) ==
    LET y1 == Year(q.Start)
        y2 == Year(Add(q.End, 0 - absoluteStep(s)))
        min == IF y1 > y2 THEN y2 ELSE y1
        max == IF y1 > y2 THEN y1 ELSE y2
    IN  IF min = max THEN <<min>>
        ELSE [i \in 1..((max - min) + 1) |-> min + (i - 1)]

\* slices.Contains(p.YearsStep(step), year)
InYearStep(q, s, y) == \E i \in DOMAIN YearsStep(q, s) : YearsStep(q, s)[i] = y

----------------------------------------------------------------------------
(* Period.DatesStep, Period.SliceDatesStep *)

RECURSIVE datesLoop_strict(_, _, _)
\* datesLoop that also stops at a day that starts at end
datesLoop_strict(out, current, end) ==
    LET out1 == Append(out, current)
        next == StartOfDay(AddDays(current, 1))
    IN  IF SameOrAfter(next, end) THEN out1 ELSE datesLoop_strict(out1, next, end)

RECURSIVE datesLoop(_, _, _)
\* the for loop: append, step to the next day, stop once it is after end
datesLoop(out, current, end) ==
    LET out1 == Append(out, current)
        next == StartOfDay(AddDays(current, 1))
    IN  IF After(next, end) THEN out1 ELSE datesLoop(out1, next, end)

DatesStep(q, s) ==
    IF Validate(q) # "nil" THEN << >>
    ELSE datesLoop(<< >>, StartOfDay(q.Start), Add(q.End, 0 - absoluteStep(s)))

RECURSIVE sliceLoop(_, _, _, _, _)
\* the range loop from index i (0-based) on: cutDates so far, and after once
\* the predicate fn answers true.  fn is the set of the indices i at which
\* fn(date, i) is true: the loop calls fn once per index, in order, and each
\* index has one date.
sliceLoop(ds, i, cutDates, fn, q) ==
    IF i >= Len(ds) THEN [cutDates |-> cutDates, after |-> ZeroPeriod]
    ELSE IF i \in fn THEN [cutDates |-> cutDates, after |-> Period(ds[i + 1], q.End)]
    ELSE sliceLoop(ds, i + 1, Append(cutDates, ds[i + 1]), fn, q)

\* the triple SliceDatesStep returns
SliceDatesStep(q, s, fn) ==
    IF Validate(q) # "nil" THEN [before |-> q, after |-> ZeroPeriod, found |-> FALSE]
    ELSE LET ds == DatesStep(q, s) IN
         IF Len(ds) = 0 THEN [before |-> q, after |-> ZeroPeriod, found |-> FALSE]
         ELSE LET l == sliceLoop(ds, 0, << >>, fn, q) IN
              IF Len(l.cutDates) = 0 THEN [before |-> q, after |-> ZeroPeriod, found |-> FALSE]
              ELSE [before |-> Period(l.cutDates[1], l.cutDates[Len(l.cutDates)]),
                    after |-> l.after, found |-> TRUE]

----------------------------------------------------------------------------
(* The calls *)

\* the periods Validate accepts
ValidPeriods == {q \in Periods : Validate(q) = "nil"}

\* the sequences of n periods drawn from S
Lists(S, n) == [1..n -> S]

\* the valid periods after the zero instant
LaterPeriods == {q \in ValidPeriods : q.Start > 0}

\* the two concurrent calls
Goroutines == {"g1", "g2"}

\* a call that has not started
NotCalled == [pc |-> "idle", i |-> 0, j |-> 0, x |-> ZeroPeriod, y |-> ZeroPeriod,
              remaining |-> << >>, wrote |-> FALSE]

\* the loop of DatesStep not entered
NotEntered == [pc |-> "idle", current |-> 0, end |-> 0, out |-> << >>]

\* no stepwise run has begun
RunsIdle ==
    /\ at = 0
    /\ err = "none"
    /\ loop = NotEntered
    /\ calls = [g \in Goroutines |-> NotCalled]

\* no calendar operation has been called
CalendarIdle ==
    /\ year = 0
    /\ pred = {}
    /\ years = << >>
    /\ dates = << >>
    /\ before = ZeroPeriod
    /\ after = ZeroPeriod
    /\ RunsIdle

\* The calls made: any receiver with at most one period of any kind (zero,
\* unbounded on a side, invalid, before the zero instant), or a valid
\* receiver with two to MaxCuts valid periods, in any order, all after the
\* zero instant.
Init ==
    /\ \/ p \in Periods /\ args \in Lists(Periods, 0) \cup Lists(Periods, 1)
       \/ p \in LaterPeriods /\ args \in UNION {Lists(LaterPeriods, n) : n \in 2..MaxCuts}
    /\ given = << >>
    /\ p2 = ZeroPeriod
    /\ step = 0
    /\ op = "none"
    /\ result = << >>
    /\ ok = FALSE
    /\ CalendarIdle

\* p.Cut(args...): sorts the caller's slice in place, then cuts
Cut ==
    /\ given' = args
    /\ args' = SortByStart(args)
    /\ result' = cutLoop(<<p>>, args')
    /\ op' = "Cut"
    /\ UNCHANGED <<p, p2, step, ok>>
    /\ UNCHANGED calVars

\* p.CutInclusive(args...): maps the cuts into a slice of its own
CutInclusive ==
    /\ given' = args
    /\ result' = CutInclusiveResult(p, args)
    /\ op' = "CutInclusive"
    /\ UNCHANGED <<p, args, p2, step, ok>>
    /\ UNCHANGED calVars

\* p.MergeStep(s, args): sorts a copy of the slice with p prepended
MergeStep ==
    \E s \in Steps :
        /\ given' = args
        /\ step' = s
        /\ result' = MergeStepResult(p, s, args)
        /\ op' = "MergeStep"
        /\ UNCHANGED <<p, args, p2, ok>>
        /\ UNCHANGED calVars

\* p.Merge(args)
Merge ==
    /\ given' = args
    /\ step' = 0
    /\ result' = MergeStepResult(p, 0, args)
    /\ op' = "Merge"
    /\ UNCHANGED <<p, args, p2, ok>>
    /\ UNCHANGED calVars

Next == Cut \/ CutInclusive

Spec == Init /\ [][Next]_vars

NextMerge == MergeStep \/ Merge

SpecMerge == Init /\ [][NextMerge]_vars

\* the calls of Merge alone
NextMergeCalls == Merge

SpecMergeCalls == Init /\ [][NextMergeCalls]_vars

NextSlices == Cut \/ CutInclusive \/ MergeStep \/ Merge

SpecSlices == Init /\ [][NextSlices]_vars

(* A single call of Cut, CutInclusive, MergeStep or Merge: none of them    *)
(* keeps anything from one call to the next, so the first call of a        *)
(* behaviour returns what any later call with these arguments returns.     *)

FirstCut == op = "none" /\ Cut

FirstCutInclusive == op = "none" /\ CutInclusive

FirstMergeStep == op = "none" /\ MergeStep

FirstMerge == op = "none" /\ Merge

NextFirst == FirstCut \/ FirstCutInclusive \/ FirstMergeStep \/ FirstMerge

SpecFirst == Init /\ [][NextFirst]_vars

(* One call of MergeStep or Merge per behaviour *)

NextFirstMerge == FirstMergeStep \/ FirstMerge

SpecFirstMerge == Init /\ [][NextFirstMerge]_vars

(* The calls of the overlap predicate, on two periods *)

InitOverlap ==
    /\ p \in Periods
    /\ p2 \in Periods
    /\ args = << >>
    /\ given = << >>
    /\ step = 0
    /\ op = "none"
    /\ result = << >>
    /\ ok = FALSE
    /\ CalendarIdle

\* p.OverlapsWithStep(s, p2)
CallOverlapsWithStep ==
    \E s \in Steps :
        /\ step' = s
        /\ ok' = OverlapsWithStep(p, s, p2)
        /\ op' = "OverlapsWithStep"
        /\ UNCHANGED <<p, args, given, p2, result>>
        /\ UNCHANGED calVars

\* p.OverlapsWith(p2)
CallOverlapsWith ==
    /\ step' = Nanosecond
    /\ ok' = OverlapsWith(p, p2)
    /\ op' = "OverlapsWith"
    /\ UNCHANGED <<p, args, given, p2, result>>
    /\ UNCHANGED calVars

NextOverlap == CallOverlapsWithStep \/ CallOverlapsWith

SpecOverlap == InitOverlap /\ [][NextOverlap]_vars

(* The calls of Validate, Contains and ContainsInclusive, on one period *)

InitChecks ==
    /\ p \in Periods
    /\ args = << >>
    /\ given = << >>
    /\ p2 = ZeroPeriod
    /\ step = 0
    /\ op = "none"
    /\ result = << >>
    /\ ok = FALSE
    /\ CalendarIdle

\* p.Validate()
CallValidate ==
    /\ err' = Validate(p)
    /\ op' = "Validate"
    /\ UNCHANGED <<p, args, given, p2, step, result, ok, year, pred, years, dates, before, after>>
    /\ UNCHANGED <<at, loop, calls>>

\* p.Contains(t)
CallContains ==
    \E t \in Time :
        /\ at' = t
        /\ ok' = Contains(p, t)
        /\ op' = "Contains"
        /\ UNCHANGED <<p, args, given, p2, step, result, year, pred, years, dates, before, after>>
        /\ UNCHANGED <<err, loop, calls>>

\* p.ContainsInclusive(t)
CallContainsInclusive ==
    \E t \in Time :
        /\ at' = t
        /\ ok' = ContainsInclusive(p, t)
        /\ op' = "ContainsInclusive"
        /\ UNCHANGED <<p, args, given, p2, step, result, year, pred, years, dates, before, after>>
        /\ UNCHANGED <<err, loop, calls>>

NextChecks == CallValidate \/ CallContains \/ CallContainsInclusive

SpecChecks == InitChecks /\ [][NextChecks]_vars

(* The calls of the calendar operations, on one period.  A behaviour is    *)
(* one call: the operations take the receiver by value and keep nothing,   *)
(* so a later call returns what it would have returned as the first.       *)

CalTime == MinT..MaxCal
CalPeriods == {Period(s, e) : s \in CalTime, e \in CalTime}

\* the years InYearStep is asked about: those of the model's instants and one
\* more on each side
Years == (Year(MinT - MaxStep) - 1)..(Year(MaxCal) + 1)

\* the most dates a period of the model has
MaxDates == FloorDiv(MaxCal - MinT, DayLen) + 2

\* the predicates passed to SliceDatesStep, each as the set of indices at
\* which it answers true
Predicates == SUBSET (0..(MaxDates - 1))

InitCalendar ==
    /\ p \in CalPeriods
    /\ args = << >>
    /\ given = << >>
    /\ p2 = ZeroPeriod
    /\ step = 0
    /\ op = "none"
    /\ result = << >>
    /\ ok = FALSE
    /\ CalendarIdle

\* p.YearsStep(s)
CallYearsStep ==
    \E s \in Steps :
        /\ op = "none"
        /\ step' = s
        /\ years' = YearsStep(p, s)
        /\ op' = "YearsStep"
        /\ UNCHANGED <<p, args, given, p2, result, ok, year, pred, dates, before, after>>
        /\ UNCHANGED runVars

\* p.InYearStep(s, y)
CallInYearStep ==
    \E s \in Steps : \E y \in Years :
        /\ op = "none"
        /\ step' = s
        /\ year' = y
        /\ ok' = InYearStep(p, s, y)
        /\ op' = "InYearStep"
        /\ UNCHANGED <<p, args, given, p2, result, pred, years, dates, before, after>>
        /\ UNCHANGED runVars

\* p.DatesStep(s)
CallDatesStep ==
    \E s \in Steps :
        /\ op = "none"
        /\ step' = s
        /\ dates' = DatesStep(p, s)
        /\ op' = "DatesStep"
        /\ UNCHANGED <<p, args, given, p2, result, ok, year, pred, years, before, after>>
        /\ UNCHANGED runVars

\* p.SliceDatesStep(s, fn)
CallSliceDatesStep ==
    \E s \in Steps : \E fn \in Predicates :
        LET r == SliceDatesStep(p, s, fn) IN
        /\ op = "none"
        /\ step' = s
        /\ pred' = fn
        /\ before' = r.before
        /\ after' = r.after
        /\ ok' = r.found
        /\ op' = "SliceDatesStep"
        /\ UNCHANGED <<p, args, given, p2, result, year, years, dates>>
        /\ UNCHANGED runVars

NextCalendar == CallYearsStep \/ CallInYearStep \/ CallDatesStep \/ CallSliceDatesStep

SpecCalendar == InitCalendar /\ [][NextCalendar]_vars

(* Two goroutines call p.Cut(args...) with the same slice: args is the    *)
(* backing array both calls sort in place, calls[g] holds the locals of    *)
(* the call of g. A step is one comparison, one read of the two elements   *)
(* of a swap, one element write, or one iteration of the range loop.       *)

InitConcurrent ==
    /\ p \in LaterPeriods
    /\ args \in UNION {Lists(LaterPeriods, n) : n \in 0..MaxCuts}
    /\ given = args
    /\ p2 = ZeroPeriod
    /\ step = 0
    /\ op = "none"
    /\ result = << >>
    /\ ok = FALSE
    /\ CalendarIdle

\* the call of g has begun and has not returned
InProgress(g) == calls[g].pc \notin {"idle", "done"}

\* the call of the other goroutine is in progress
OtherInProgress(g) == \E h \in Goroutines \ {g} : InProgress(h)

\* g enters Cut: the sort starts at the second element
CallCut(g) ==
    /\ calls[g].pc = "idle"
    /\ calls' = [calls EXCEPT ![g].pc = "sort", ![g].i = 2, ![g].j = 2,
                              ![g].remaining = <<p>>]
    /\ UNCHANGED args

\* the loop tests of the sort: i < b, and j > a && cmp(data[j], data[j-1]) < 0
SortCompare(g) ==
    /\ calls[g].pc = "sort"
    /\ LET i == calls[g].i
           j == calls[g].j
       IN  calls' = IF i > Len(args)
                    THEN [calls EXCEPT ![g].pc = "range", ![g].i = 1]
                    ELSE IF j > 1 /\ Before(args[j].Start, args[j - 1].Start)
                         THEN [calls EXCEPT ![g].pc = "swapRead"]
                         ELSE [calls EXCEPT ![g].i = i + 1, ![g].j = i + 1]
    /\ UNCHANGED args

\* data[j], data[j-1] = data[j-1], data[j]: the right-hand side is read
SwapRead(g) ==
    /\ calls[g].pc = "swapRead"
    /\ calls' = [calls EXCEPT ![g].x = args[calls[g].j - 1], ![g].y = args[calls[g].j],
                              ![g].pc = "swapWriteRight"]
    /\ UNCHANGED args

\* data[j] is written
SwapWriteRight(g) ==
    /\ calls[g].pc = "swapWriteRight"
    /\ args' = [args EXCEPT ![calls[g].j] = calls[g].x]
    /\ calls' = [calls EXCEPT ![g].pc = "swapWriteLeft",
                              ![g].wrote = calls[g].wrote \/ OtherInProgress(g)]

\* data[j-1] is written, and j--
SwapWriteLeft(g) ==
    /\ calls[g].pc = "swapWriteLeft"
    /\ args' = [args EXCEPT ![calls[g].j - 1] = calls[g].y]
    /\ calls' = [calls EXCEPT ![g].pc = "sort", ![g].j = calls[g].j - 1,
                              ![g].wrote = calls[g].wrote \/ OtherInProgress(g)]

\* for _, c := range cut: one element is read and cut from remaining;
\* past the last element the call returns remaining
RangeNext(g) ==
    /\ calls[g].pc = "range"
    /\ LET i == calls[g].i
       IN  calls' = IF i > Len(args)
                    THEN [calls EXCEPT ![g].pc = "done"]
                    ELSE [calls EXCEPT ![g].remaining = cutEach(calls[g].remaining, args[i]),
                                       ![g].i = i + 1]
    /\ UNCHANGED args

\* one step of one of the two calls
CutStep(g) ==
    /\ \/ CallCut(g)
       \/ SortCompare(g)
       \/ SwapRead(g)
       \/ SwapWriteRight(g)
       \/ SwapWriteLeft(g)
       \/ RangeNext(g)
    /\ UNCHANGED <<p, given, p2, step, op, result, ok>>
    /\ UNCHANGED <<year, pred, years, dates, before, after, at, err, loop>>

NextConcurrent == \E g \in Goroutines : CutStep(g)

SpecConcurrent == InitConcurrent /\ [][NextConcurrent]_vars

(* The loop of DatesStep, one step at a time: loop.out is the local out,   *)
(* loop.current the local current, loop.end the local end.                 *)

\* a first date one day late
firstDate_dayLate(q) == StartOfDay(AddDays(q.Start, 1))

\* current := StartOfDay(p.Start)
firstDate(q) == StartOfDay(q.Start)

\* the call: Validate, and the locals before the loop
EnterDatesStep ==
    \E s \in Steps :
        /\ op = "none"
        /\ step' = s
        /\ op' = "DatesStep loop"
        /\ loop' = IF Validate(p) # "nil"
                   THEN [pc |-> "return", current |-> 0, end |-> 0, out |-> << >>]
                   ELSE [pc |-> "append", current |-> firstDate(p),
                         end |-> Add(p.End, 0 - absoluteStep(s)), out |-> << >>]
        /\ UNCHANGED <<p, args, given, p2, result, ok, year, pred, years, dates, before, after>>
        /\ UNCHANGED <<at, err, calls>>

\* out = append(out, current); current = StartOfDay(current.AddDate(0, 0, 1))
LoopAppend ==
    /\ loop.pc = "append"
    /\ loop' = [loop EXCEPT !.out = Append(loop.out, loop.current),
                            !.current = StartOfDay(AddDays(loop.current, 1)),
                            !.pc = "test"]
    /\ UNCHANGED <<p, args, given, p2, step, op, result, ok, year, pred, years, dates, before, after>>
    /\ UNCHANGED <<at, err, calls>>

\* if current.After(end) { break }
LoopTest ==
    /\ loop.pc = "test"
    /\ loop' = [loop EXCEPT !.pc = IF After(loop.current, loop.end) THEN "return" ELSE "append"]
    /\ UNCHANGED <<p, args, given, p2, step, op, result, ok, year, pred, years, dates, before, after>>
    /\ UNCHANGED <<at, err, calls>>

\* return out (nil for an invalid receiver)
ReturnDates ==
    /\ loop.pc = "return"
    /\ dates' = loop.out
    /\ loop' = [loop EXCEPT !.pc = "done"]
    /\ UNCHANGED <<p, args, given, p2, step, op, result, ok, year, pred, years, before, after>>
    /\ UNCHANGED <<at, err, calls>>

NextDatesLoop == EnterDatesStep \/ LoopAppend \/ LoopTest \/ ReturnDates

\* the call is made and the goroutine that runs it keeps running
SpecDatesLoop == InitCalendar /\ [][NextDatesLoop]_vars /\ WF_vars(NextDatesLoop)

----------------------------------------------------------------------------
(* What the properties are stated with: half-open intervals as sets of     *)
(* instants, and the set difference computed instant by instant.           *)

Valid(q) == Validate(q) = "nil"
NonZeroBounds(q) == q.Start # 0 /\ q.End # 0

\* t is an instant of the half-open interval [q.Start, q.End)
InHalfOpen(q, t) == q.Start <= t /\ t < q.End

\* t is an instant of q outside every period of cs
Kept(q, cs, t) == InHalfOpen(q, t) /\ \A i \in DOMAIN cs : ~InHalfOpen(cs[i], t)

\* the end of the maximal run of kept instants that starts at t
RunEnd(q, cs, t) ==
    CHOOSE u \in (t + 1)..q.End : ~Kept(q, cs, u) /\ \A v \in t..(u - 1) : Kept(q, cs, v)

RECURSIVE AscendingByStart(_)
\* a finite set of periods with distinct Starts, as a sequence ascending by Start
AscendingByStart(S) ==
    IF S = {} THEN << >>
    ELSE LET first == CHOOSE q \in S : \A r \in S : q.Start <= r.Start
         IN  <<first>> \o AscendingByStart(S \ {first})

\* the maximal non-empty intervals of [q.Start, q.End) minus the union of cs
Difference(q, cs) ==
    AscendingByStart({Period(t, RunEnd(q, cs, t)) :
        t \in {u \in q.Start..(q.End - 1) : Kept(q, cs, u) /\ ~Kept(q, cs, u - 1)}})

CutOfOne == op = "Cut" /\ Len(given) = 1

----------------------------------------------------------------------------
(* C1: for a valid receiver p and a single valid cut c with non-zero       *)
(* bounds, p.Cut(c) is the half-open set difference: two fragments         *)
(* [p.Start, c.Start) and [c.End, p.End) when c is strictly inside p, one  *)
(* fragment when c covers only the end or only the start of p, nothing     *)
(* when c covers p (c equal to p included), and [p] when c and p share no  *)
(* instant.                                                                *)
C1_SingleCutIsDifference ==
    (CutOfOne /\ Valid(p) /\ Valid(given[1]) /\ NonZeroBounds(given[1])) =>
        LET c == given[1] IN
        /\ result = Difference(p, <<c>>)
        /\ (p.Start < c.Start /\ c.End < p.End) =>
               result = <<Period(p.Start, c.Start), Period(c.End, p.End)>>
        /\ (p.Start < c.Start /\ c.Start < p.End /\ p.End <= c.End) =>
               result = <<Period(p.Start, c.Start)>>
        /\ (c.Start <= p.Start /\ p.Start < c.End /\ c.End < p.End) =>
               result = <<Period(c.End, p.End)>>
        /\ (c.Start <= p.Start /\ p.End <= c.End) => result = << >>
        /\ (c.End <= p.Start \/ p.End <= c.Start) => result = <<p>>

\* a cut strictly inside a valid receiver has left the two fragments
C1_Witness ==
    /\ CutOfOne /\ Valid(p) /\ Valid(given[1])
    /\ p.Start < given[1].Start /\ given[1].End < p.End
    /\ Len(result) = 2

----------------------------------------------------------------------------
(* C2: for a valid receiver p and valid cuts with non-zero bounds, in any  *)
(* order, overlapping or not, p.Cut(cuts...) is exactly the maximal        *)
(* non-empty intervals of p minus the union of the cuts: every fragment is *)
(* a valid period inside p, no instant of a cut is in a fragment, every    *)
(* instant of p outside all cuts is in exactly one fragment, and the       *)
(* fragments ascend by Start, each End not after the next Start.           *)
C2_CutIsDifference ==
    (op = "Cut" /\ Valid(p) /\ \A i \in DOMAIN given : Valid(given[i])) =>
        /\ result = Difference(p, given)
        /\ \A k \in DOMAIN result :
               /\ Valid(result[k])
               /\ p.Start <= result[k].Start /\ result[k].End <= p.End
        /\ \A t \in Time : \A k \in DOMAIN result : \A i \in DOMAIN given :
               ~(InHalfOpen(given[i], t) /\ InHalfOpen(result[k], t))
        /\ \A t \in Time : Kept(p, given, t) =>
               Cardinality({k \in DOMAIN result : InHalfOpen(result[k], t)}) = 1
        /\ \A k \in 1..(Len(result) - 1) :
               /\ result[k].Start < result[k + 1].Start
               /\ result[k].End <= result[k + 1].Start

\* two valid cuts passed in descending order of Start have left three
\* fragments of a valid receiver
C2_Witness ==
    /\ op = "Cut" /\ Valid(p) /\ Len(given) = 2
    /\ \A i \in DOMAIN given : Valid(given[i])
    /\ given[1].Start > given[2].Start
    /\ given # args
    /\ Len(result) = 3

----------------------------------------------------------------------------
(* C3: a zero Start or End of a cut is unbounded on that side: for a valid *)
(* receiver p and a cut c with exactly one zero bound, p.Cut(c) equals     *)
(* p.Cut(c') for c' with the zero Start replaced by an instant before      *)
(* p.Start, or the zero End by an instant after p.End; a cut with zero End *)
(* and non-zero Start <= p.Start, and a cut with zero Start and            *)
(* End >= p.End, each leave nothing.                                       *)
C3_ZeroBoundIsUnbounded ==
    (CutOfOne /\ Valid(p)) =>
        LET c == given[1] IN
        /\ (c.Start = 0 /\ c.End # 0) =>
               /\ \A s \in (MinT - 1)..(p.Start - 1) :
                      s # 0 => result = CutResult(p, <<Period(s, c.End)>>)
               /\ c.End >= p.End => result = << >>
        /\ (c.End = 0 /\ c.Start # 0) =>
               /\ \A e \in (p.End + 1)..(MaxT + 1) :
                      result = CutResult(p, <<Period(c.Start, e)>>)
               /\ c.Start <= p.Start => result = << >>

----------------------------------------------------------------------------
(* C4: for a valid receiver p, a cut with zero Start and an End strictly   *)
(* inside p leaves exactly [[cut.End, p.End)], and a cut with zero End and *)
(* a Start strictly inside p leaves exactly [[p.Start, cut.Start)].  (The  *)
(* bound inside p is an instant, not the zero value: a cut with both       *)
(* bounds zero is the zero Period.)                                        *)
C4_OneSidedCut ==
    (CutOfOne /\ Valid(p)) =>
        LET c == given[1] IN
        /\ (c.Start = 0 /\ c.End # 0 /\ p.Start < c.End /\ c.End < p.End) =>
               result = <<Period(c.End, p.End)>>
        /\ (c.End = 0 /\ c.Start # 0 /\ p.Start < c.Start /\ c.Start < p.End) =>
               result = <<Period(p.Start, c.Start)>>

\* a cut with zero End and a Start strictly inside p has been made
C4_Witness ==
    /\ CutOfOne /\ Valid(p)
    /\ given[1].End = 0 /\ given[1].Start # 0
    /\ p.Start < given[1].Start /\ given[1].Start < p.End
    /\ result = <<Period(p.Start, given[1].Start)>>

----------------------------------------------------------------------------
(* C5: cutting by the zero Period removes nothing: for every receiver p,   *)
(* the zero Period included, p.Cut(Period{}) and p.CutInclusive(Period{})  *)
(* return the one-element sequence [p].                                    *)
C5_ZeroCutRemovesNothing ==
    (op \in {"Cut", "CutInclusive"} /\ given = <<ZeroPeriod>>) => result = <<p>>

\* CutInclusive of a valid receiver by the zero Period has returned
C5_Witness ==
    /\ op = "CutInclusive" /\ given = <<ZeroPeriod>> /\ Valid(p)
    /\ result = <<p>>

----------------------------------------------------------------------------
(* C6: Cut, CutInclusive and MergeStep do not modify their inputs: after   *)
(* any call the receiver and the caller's sequence of periods hold the     *)
(* same elements in the same order as before the call, also when the       *)
(* periods were passed in non-ascending order of Start.                    *)
C6_InputsUnmodified ==
    [][op' \in {"Cut", "CutInclusive", "MergeStep"} => (p' = p /\ args' = args)]_vars

----------------------------------------------------------------------------
(* C7: CutInclusive treats End as included: for a receiver p and a cut c   *)
(* with non-zero bounds and p.Start < c.Start <= c.End < p.End,            *)
(* p.CutInclusive(c) is exactly [[p.Start, c.Start - 1ns],                 *)
(* [c.End + 1ns, p.End]]; and when c.Start <= p.Start and c.End >= p.End   *)
(* (c equal to p included) the result is empty.                            *)
C7_CutInclusiveClosed ==
    (op = "CutInclusive" /\ Len(given) = 1 /\ NonZeroBounds(p) /\ NonZeroBounds(given[1])) =>
        LET c == given[1] IN
        /\ (p.Start < c.Start /\ c.Start <= c.End /\ c.End < p.End) =>
               result = <<Period(p.Start, c.Start - Nanosecond),
                          Period(c.End + Nanosecond, p.End)>>
        /\ (c.Start <= p.Start /\ c.End >= p.End) => result = << >>

----------------------------------------------------------------------------
(* C8: CutInclusive counts a cut that only touches the receiver, Cut does  *)
(* not: for a valid receiver p and a valid cut c with c.Start = p.End,     *)
(* p.CutInclusive(c) = [[p.Start, p.End - 1ns]] and p.Cut(c) = [p]; with   *)
(* c.End = p.Start, p.CutInclusive(c) = [[p.Start + 1ns, p.End]] and       *)
(* p.Cut(c) = [p].                                                         *)
C8_TouchingCut ==
    (Len(given) = 1 /\ Valid(p) /\ Valid(given[1])) =>
        LET c == given[1] IN
        /\ (op = "CutInclusive" /\ c.Start = p.End) =>
               result = <<Period(p.Start, p.End - Nanosecond)>>
        /\ (op = "CutInclusive" /\ c.End = p.Start) =>
               result = <<Period(p.Start + Nanosecond, p.End)>>
        /\ (op = "Cut" /\ (c.Start = p.End \/ c.End = p.Start)) => result = <<p>>

----------------------------------------------------------------------------
(* C9: for two valid periods a and b with a.End = b.Start,                 *)
(* a.OverlapsWithStep(0, b) is true and a.OverlapsWithStep(step, b) is     *)
(* false for every step >= 1ns; hence a.OverlapsWith(b) is false.          *)
C9_AdjacentOverlap ==
    (Valid(p) /\ Valid(p2) /\ p.End = p2.Start) =>
        /\ (op = "OverlapsWithStep" /\ step = 0) => ok
        /\ (op = "OverlapsWithStep" /\ step >= Nanosecond) => ~ok
        /\ op = "OverlapsWith" => ~ok

\* OverlapsWithStep(0, .) has answered true for two adjacent valid periods
C9_Witness ==
    /\ op = "OverlapsWithStep" /\ step = 0
    /\ Valid(p) /\ Valid(p2) /\ p.End = p2.Start
    /\ ok

----------------------------------------------------------------------------
(* C10: the step is the minimum overlap: for two valid periods and a step  *)
(* > 0, OverlapsWithStep(step, .) is true only if the half-open periods    *)
(* share a stretch of at least step (min of the Ends minus max of the      *)
(* Starts >= step), whatever the lengths of the periods.                   *)
Min(a, b) == IF a < b THEN a ELSE b
Max(a, b) == IF a > b THEN a ELSE b

C10_StepIsMinimumOverlap ==
    (op = "OverlapsWithStep" /\ Valid(p) /\ Valid(p2) /\ step > 0 /\ ok) =>
        Min(p.End, p2.End) - Max(p.Start, p2.Start) >= step

----------------------------------------------------------------------------
(* What the properties of Merge are stated with *)

\* the set of the elements of a sequence
Range(s) == {s[i] : i \in DOMAIN s}

\* the receiver and the periods passed, as one collection
Collection == <<p>> \o given

\* no two members of the collection overlap under step s
PairwiseApart(s) ==
    \A i \in DOMAIN Collection : \A j \in DOMAIN Collection :
        i # j => ~OverlapsWithStep(Collection[i], s, Collection[j])

\* for each size n of a collection, the permutations of 1..n
AllPermutations ==
    [n \in 1..(MaxCuts + 1) |->
        {f \in [1..n -> 1..n] : \A i \in 1..n : \A j \in 1..n : i # j => f[i] # f[j]}]

\* the permutations of 1..n
Permutations(n) == AllPermutations[n]

\* the set Merge returns when the collection is arranged by f: member f[1] is
\* the receiver, the others are passed in the order f[2], f[3], ...
MergedAs(f) ==
    LET c == [i \in 1..Len(Collection) |-> Collection[f[i]]]
    IN  Range(MergeStepResult(c[1], 0, Tail(c)))

----------------------------------------------------------------------------
(* C11 as stated: for a valid receiver p and valid periods qs no two of    *)
(* which overlap under OverlapsWith (a step of 1ns), p.Merge(qs) returns   *)
(* every input period unchanged as its own entry, ascending by Start,      *)
(* whatever the order of the inputs.                                       *)
C11_ApartAtOneNanosecond ==
    (op = "Merge" /\ \A i \in DOMAIN Collection : Valid(Collection[i])
        /\ PairwiseApart(Nanosecond)) =>
        result = AscendingByStart(Range(Collection))

(* C11 amended: for a valid receiver p and valid periods qs no two of      *)
(* which overlap under OverlapsWithStep with step 0 (they neither share    *)
(* an instant nor touch), p.Merge(qs) returns every input period unchanged *)
(* as its own entry, ascending by Start, whatever the order of the inputs. *)
C11_MergeKeepsApart ==
    (op = "Merge" /\ \A i \in DOMAIN Collection : Valid(Collection[i])
        /\ PairwiseApart(0)) =>
        result = AscendingByStart(Range(Collection))

\* three valid periods, none touching another, were passed out of order and
\* came back as three entries
C11_Witness ==
    /\ op = "Merge" /\ Len(given) = 2
    /\ \A i \in DOMAIN Collection : Valid(Collection[i])
    /\ PairwiseApart(0)
    /\ given[2].Start < p.Start /\ p.Start < given[1].Start
    /\ Len(result) = 3

----------------------------------------------------------------------------
(* C12 as stated: for any collection of periods, the set of periods Merge  *)
(* returns is the same whichever member is the receiver and in whatever    *)
(* order the others are passed.                                            *)
C12_MergeCommutes ==
    (op = "Merge" /\ Len(given) >= 1) =>
        \A f \in Permutations(Len(Collection)) : MergedAs(f) = Range(result)

(* C12 amended: for any collection of valid periods, the set of periods    *)
(* Merge returns is the same whichever member is the receiver and in       *)
(* whatever order the others are passed.                                   *)
C12_MergeCommutesOnValid ==
    (op = "Merge" /\ Len(given) >= 1 /\ \A i \in DOMAIN Collection : Valid(Collection[i])) =>
        \A f \in Permutations(Len(Collection)) : MergedAs(f) = Range(result)

\* three valid periods, the receiver not the earliest, two of them
\* overlapping, were merged into two
C12_Witness ==
    /\ op = "Merge" /\ Len(given) = 2
    /\ \A i \in DOMAIN Collection : Valid(Collection[i])
    /\ given[1].Start < p.Start
    /\ ~PairwiseApart(0)
    /\ Len(result) = 2

----------------------------------------------------------------------------
(* What the properties of the calendar operations are stated with *)

\* the last element of a non-empty sequence
Last(s) == s[Len(s)]

\* each element of a sequence of integers is its predecessor plus d
StepsBy(s, d) == \A i \in 1..(Len(s) - 1) : s[i + 1] = s[i] + d

RECURSIVE AscendingInts(_)
\* a finite set of integers as an ascending sequence
AscendingInts(S) ==
    IF S = {} THEN << >>
    ELSE LET least == CHOOSE x \in S : \A y \in S : x <= y
         IN  <<least>> \o AscendingInts(S \ {least})

\* the starts of the days around the instants of the model
DayStarts == {d \in (MinT - (2 * DayLen))..(MaxCal + (2 * DayLen)) : d % DayLen = 0}

\* for how long the half-open period q is inside the stretch [from, to)
TimeInside(q, from, to) == Min(q.End, to) - Max(q.Start, from)

\* the period that is year y
YearPeriod(y) == Period(StartOfYear(y), StartOfYear(y + 1))

----------------------------------------------------------------------------
----------------------------------------------------------------------------
(* C14 as stated: for every valid period that lies fully inside one        *)
(* calendar year Y (p.Start and the last instant before p.End are both in  *)
(* Y) and for every step, YearsStep(step) returns the single-element       *)
(* sequence [Y].                                                           *)
C14_OneYear ==
    (op = "YearsStep" /\ Valid(p) /\ Year(p.Start) = Year(p.End - Nanosecond)) =>
        years = <<Year(p.Start)>>

(* C14 amended: for every valid period that lies fully inside one calendar *)
(* year Y and for every step for which p.End - |step| is an instant of Y   *)
(* (not step 0 when p.End is the start of year Y + 1, and no step longer   *)
(* than p.End minus the start of Y), YearsStep(step) returns [Y].          *)
C14_OneYearWithinStep ==
    (op = "YearsStep" /\ Valid(p) /\ Year(p.Start) = Year(p.End - Nanosecond)
        /\ InHalfOpen(YearPeriod(Year(p.Start)), p.End - absoluteStep(step))) =>
        years = <<Year(p.Start)>>

\* YearsStep(1ns) of a valid period that ends where the next year starts has
\* returned its one year
C14_Witness ==
    /\ op = "YearsStep" /\ Valid(p) /\ step = Nanosecond
    /\ Year(p.Start) = Year(p.End - Nanosecond)
    /\ p.End = StartOfYear(Year(p.Start) + 1)
    /\ years = <<Year(p.Start)>>

----------------------------------------------------------------------------
(* C15: for every valid period p, every step and every year y,             *)
(* p.InYearStep(step, y) is true iff p.OverlapsWithStep(step, Y) is true,  *)
(* Y the period from the start of year y to the start of year y + 1.       *)
C15_InYearIsOverlap ==
    (op = "InYearStep" /\ Valid(p)) =>
        (ok <=> OverlapsWithStep(p, step, YearPeriod(year)))

----------------------------------------------------------------------------
----------------------------------------------------------------------------
(* C17: for every valid period p and every step of at least 1ns, a         *)
(* calendar date is in DatesStep(step) iff the part of [p.Start, p.End)    *)
(* between the day's start and the next day's start lasts at least step.   *)
C17_DateIffInsideForStep ==
    (op = "DatesStep" /\ Valid(p) /\ step # 0) =>
        \A d \in DayStarts :
            (d \in Range(dates)) <=> (TimeInside(p, d, d + DayLen) >= absoluteStep(step))

----------------------------------------------------------------------------
(* C18: for every valid period p and every step, SliceDatesStep with a     *)
(* predicate that is false for every date returns (p, the zero Period,     *)
(* false).                                                                 *)
C18_NeverTrue ==
    (op = "SliceDatesStep" /\ Valid(p) /\ pred = {}) =>
        (before = p /\ after = ZeroPeriod /\ ~ok)

----------------------------------------------------------------------------
(* C19: for every valid period p, every step and every predicate that is   *)
(* true for a date of DatesStep(step), with k the index of the first such  *)
(* date (k = 0 included): SliceDatesStep returns found = true,             *)
(* after = (dates[k], p.End), and before built from the dates preceding    *)
(* the split only (for k >= 1, before = (dates[0], dates[k - 1])).         *)
C19_SplitAtFirstTrue ==
    LET ds == DatesStep(p, step)
        hits == {i \in pred : i < Len(ds)}
    IN  (op = "SliceDatesStep" /\ Valid(p) /\ hits # {}) =>
            LET k == CHOOSE i \in hits : \A j \in hits : i <= j
            IN  /\ ok
                /\ after = Period(ds[k + 1], p.End)
                /\ k >= 1 => before = Period(ds[1], ds[k])
                /\ \A i \in k..(Len(ds) - 1) : before.Start # ds[i + 1] /\ before.End # ds[i + 1]

----------------------------------------------------------------------------
(* C20: for every period p for which Validate fails and every step,        *)
(* YearsStep(step) and DatesStep(step) return an empty sequence and        *)
(* SliceDatesStep(step, fn) returns (p, the zero Period, false).           *)
C20_InvalidReceiver ==
    ~Valid(p) =>
        /\ op = "YearsStep" => years = << >>
        /\ op = "DatesStep" => dates = << >>
        /\ op = "SliceDatesStep" => (before = p /\ after = ZeroPeriod /\ ~ok)

----------------------------------------------------------------------------
(* C21: for every Period, Validate succeeds iff Start is non-zero, End is  *)
(* non-zero and End is strictly after Start; otherwise it fails with the   *)
(* first violation in the order Start zero, End zero, End equal to Start,  *)
(* End before Start.                                                       *)
C21_ValidateOrder ==
    op = "Validate" =>
        /\ err = "nil" <=> (p.Start # 0 /\ p.End # 0 /\ p.End > p.Start)
        /\ p.Start = 0 => err = "start is zero"
        /\ (p.Start # 0 /\ p.End = 0) => err = "end is zero"
        /\ (p.Start # 0 /\ p.End # 0 /\ p.End = p.Start) =>
               err = "end must be after start; is the same"
        /\ (p.Start # 0 /\ p.End # 0 /\ p.End < p.Start) => err = "end is before start"

\* Validate of the zero Period, which violates two rules, has reported the
\* first
C21_Witness ==
    /\ op = "Validate" /\ p = ZeroPeriod
    /\ err = "start is zero"

----------------------------------------------------------------------------
(* C22: for every period p, valid or not, and every instant t,             *)
(* p.Contains(t) is true iff p.Start <= t < p.End and                      *)
(* p.ContainsInclusive(t) is true iff p.Start <= t <= p.End; the two       *)
(* differ exactly at t = p.End when p.Start <= p.End.                      *)
C22_ContainsBounds ==
    /\ op = "Contains" => (ok <=> (p.Start <= at /\ at < p.End))
    /\ op = "ContainsInclusive" => (ok <=> (p.Start <= at /\ at <= p.End))
    /\ op \in {"Contains", "ContainsInclusive"} =>
           ((Contains(p, at) # ContainsInclusive(p, at)) <=> (at = p.End /\ p.Start <= p.End))

\* Contains has answered false at the End of a valid period
C22_Witness ==
    /\ op = "Contains" /\ Valid(p) /\ at = p.End
    /\ ~ok

----------------------------------------------------------------------------
(* C23: with nothing to subtract or merge the receiver is returned alone:  *)
(* for every period p, valid or not, and every step, p.Cut() = [p],        *)
(* p.CutInclusive() = [p] and p.MergeStep(step, empty sequence) = [p].     *)
C23_NothingGiven ==
    (op \in {"Cut", "CutInclusive", "MergeStep"} /\ given = << >>) => result = <<p>>

\* CutInclusive without cuts has returned a receiver whose End is the
\* nanosecond before the zero instant
C23_Witness ==
    /\ op = "CutInclusive" /\ given = << >>
    /\ p.End = 0 - Nanosecond
    /\ result = <<p>>

----------------------------------------------------------------------------
(* C25: for two valid periods that are each at least step long and a step  *)
(* >= 0, OverlapsWithStep(step, .) is true iff                             *)
(* min(a.End, b.End) - max(a.Start, b.Start) >= step; periods overlapping  *)
(* by exactly 2ns overlap under a 2ns step, periods overlapping by 1ns do  *)
(* not.                                                                    *)
C25_OverlapOfLongPeriods ==
    (op = "OverlapsWithStep" /\ Valid(p) /\ Valid(p2) /\ step >= 0
        /\ p.End - p.Start >= step /\ p2.End - p2.Start >= step) =>
        (ok <=> (Min(p.End, p2.End) - Max(p.Start, p2.Start) >= step))

\* two valid periods longer than 2ns that share exactly 2ns, neither inside
\* the other, have been found to overlap under a step of 2ns
C25_Witness ==
    /\ op = "OverlapsWithStep" /\ Valid(p) /\ Valid(p2) /\ step = 2 * Nanosecond
    /\ p.Start < p2.Start /\ p.End < p2.End
    /\ p.End - p2.Start = 2 * Nanosecond
    /\ ok

----------------------------------------------------------------------------
(* C29: OverlapsWithStep is symmetric and ignores the sign of the step:    *)
(* for all periods a, b, valid or not, and every step,                     *)
(* a.OverlapsWithStep(step, b) = b.OverlapsWithStep(step, a)               *)
(* = a.OverlapsWithStep(-step, b), and the result is false whenever a or b *)
(* is the zero Period.                                                     *)
C29_OverlapSymmetric ==
    op = "OverlapsWithStep" =>
        /\ ok = OverlapsWithStep(p2, step, p)
        /\ ok = OverlapsWithStep(p, 0 - step, p2)
        /\ (p = ZeroPeriod \/ p2 = ZeroPeriod) => ~ok

\* a negative step has been passed with a period inside another, and the
\* answer was true
C29_Witness ==
    /\ op = "OverlapsWithStep" /\ step < 0
    /\ Valid(p) /\ Valid(p2)
    /\ p.Start < p2.Start /\ p2.End < p.End
    /\ ok

----------------------------------------------------------------------------
(* What the properties of the sweep of MergeStep are stated with *)

\* the receiver and the given periods, sorted by Start
Sorted == SortByStart(Collection)

RECURSIVE Sweeps(_, _)
\* the accumulated entries of the sweep over the sorted periods: the i-th
\* element is the merged slice once the sweep has passed the i-th period,
\* for i up to k
Sweeps(sorted, k) ==
    IF k = 1 THEN << <<sorted[1]>> >>
    ELSE LET before_k == Sweeps(sorted, k - 1)
         IN  Append(before_k, mergeLoop(before_k[k - 1], <<sorted[k]>>, step))

\* MergeStep or Merge has been called with at least one period
Swept == op \in {"MergeStep", "Merge"} /\ Len(given) >= 1

\* some period of s contains the instant t
Covered(s, t) == \E i \in DOMAIN s : InHalfOpen(s[i], t)

----------------------------------------------------------------------------
(* C26: in the sweep over the Start-sorted periods, a period that overlaps *)
(* the last accumulated entry under OverlapsWithStep(step, .) adds no      *)
(* entry and sets that entry's End to the later of the two Ends (a nested  *)
(* period leaves the End unchanged); so Merge fuses two adjacent valid     *)
(* periods [a, b) and [b, c) into [a, c), while MergeStep(1ns, .) returns  *)
(* them as two entries.                                                    *)
C26_OverlapExtends ==
    Swept =>
        LET sorted == Sorted
            sweeps == Sweeps(sorted, Len(sorted))
        IN  /\ result = sweeps[Len(sorted)]
            /\ \A k \in 2..Len(sorted) :
                   LET acc == sweeps[k - 1]
                       next == sweeps[k]
                       last == Last(acc)
                       q == sorted[k]
                   IN  OverlapsWithStep(last, step, q) =>
                           /\ next = [acc EXCEPT ![Len(acc)].End = Max(last.End, q.End)]
                           /\ q.End <= last.End => next = acc
            /\ (Len(given) = 1 /\ Valid(sorted[1]) /\ Valid(sorted[2])
                   /\ sorted[1].End = sorted[2].Start) =>
                   /\ step = 0 => result = <<Period(sorted[1].Start, sorted[2].End)>>
                   /\ step = Nanosecond => result = <<sorted[1], sorted[2]>>

\* Merge has fused the receiver and an adjacent earlier period, and a period
\* nested in an entry has left it as it was
C26_Witness ==
    /\ op = "Merge" /\ Len(given) = 2
    /\ \A i \in DOMAIN Collection : Valid(Collection[i])
    /\ given[1].End = p.Start
    /\ given[1].Start < given[2].Start /\ given[2].End < p.End /\ given[2].Start > p.Start
    /\ result = <<Period(given[1].Start, p.End)>>

----------------------------------------------------------------------------
(* C27: in the sweep, a period that neither overlaps the last accumulated  *)
(* entry under OverlapsWithStep(step, .) nor starts at or after that       *)
(* entry's End is dropped: it becomes no entry and extends no entry, so    *)
(* instants covered only by that period are covered by no result period    *)
(* (two valid periods overlapping by less than a step >= 2ns).             *)
C27_SilentDrop ==
    Swept =>
        LET sorted == Sorted
            sweeps == Sweeps(sorted, Len(sorted))
        IN  /\ \A k \in 2..Len(sorted) :
                   LET acc == sweeps[k - 1]
                       last == Last(acc)
                       q == sorted[k]
                   IN  (~OverlapsWithStep(last, step, q) /\ ~(q.Start >= last.End)) =>
                           sweeps[k] = acc
            /\ (Len(given) = 1 /\ Valid(sorted[1]) /\ Valid(sorted[2])
                   /\ ~OverlapsWithStep(sorted[1], step, sorted[2])
                   /\ sorted[2].Start < sorted[1].End) =>
                   /\ result = <<sorted[1]>>
                   /\ \A t \in Time :
                          (InHalfOpen(sorted[2], t) /\ ~InHalfOpen(sorted[1], t)) =>
                              ~Covered(result, t)

\* two valid periods that share less than the step were passed to MergeStep,
\* and an instant of the later one is in no period of the result
C27_Witness ==
    /\ op = "MergeStep" /\ Len(given) = 1 /\ absoluteStep(step) >= 2 * Nanosecond
    /\ Valid(p) /\ Valid(given[1])
    /\ p.Start < given[1].Start /\ given[1].Start < p.End /\ p.End < given[1].End
    /\ result = <<p>>
    /\ ~Covered(result, p.End)

----------------------------------------------------------------------------
(* C28: for valid inputs and step 0 or 1ns, MergeStep loses and invents    *)
(* nothing: every instant of the receiver or of a given period is in some  *)
(* result period, every instant of a result period is in some input        *)
(* period, and the result periods are valid, ascending by Start and        *)
(* pairwise non-overlapping (for step 0 with a positive gap between        *)
(* consecutive ones).                                                      *)
C28_MergeKeepsInstants ==
    (op \in {"MergeStep", "Merge"} /\ step \in {0, Nanosecond}
        /\ \A i \in DOMAIN Collection : Valid(Collection[i])) =>
        /\ \A t \in Time : Covered(Collection, t) <=> Covered(result, t)
        /\ \A k \in DOMAIN result : Valid(result[k])
        /\ \A k \in 1..(Len(result) - 1) :
               /\ result[k].Start < result[k + 1].Start
               /\ result[k].End <= result[k + 1].Start
               /\ step = 0 => result[k].End < result[k + 1].Start

\* MergeStep(1ns, .) of three valid periods given out of order, two of them
\* overlapping and the third adjacent, has returned two entries
C28_Witness ==
    /\ op = "MergeStep" /\ step = Nanosecond /\ Len(given) = 2
    /\ \A i \in DOMAIN Collection : Valid(Collection[i])
    /\ given[1].Start > p.Start /\ p.Start > given[2].Start
    /\ given[2].End > p.Start /\ given[2].End < p.End
    /\ given[1].Start = p.End
    /\ Len(result) = 2

----------------------------------------------------------------------------
(* C30: DatesStep terminates and never returns an empty sequence for a     *)
(* valid period: for every valid p and every step, steps longer than the   *)
(* period included, the loop stops after finitely many iterations, and the *)
(* result has at least one element, StartOfDay(p.Start), and at most one   *)
(* element per calendar day from the day of p.Start to the day of p.End.   *)
DatesReturned == loop.pc = "done"

C30_DatesWithinDays ==
    (DatesReturned /\ Valid(p)) =>
        /\ Len(dates) >= 1
        /\ dates[1] = StartOfDay(p.Start)
        /\ \A i \in DOMAIN dates :
               /\ dates[i] \in DayStarts
               /\ StartOfDay(p.Start) <= dates[i] /\ dates[i] <= StartOfDay(p.End)
        /\ \A i \in DOMAIN dates : \A j \in DOMAIN dates : i # j => dates[i] # dates[j]

----------------------------------------------------------------------------
(* C24: Period operations are safe to call concurrently: in every          *)
(* interleaving of two concurrent calls of Cut that were given the same    *)
(* sequence of cuts, no call writes to the slice while the other call is   *)
(* in progress, and each call returns the result it returns when run       *)
(* alone on the cuts as they were given.                                   *)
C24_ConcurrentCutsAsAlone ==
    \A g \in Goroutines :
        /\ ~calls[g].wrote
        /\ calls[g].pc = "done" => calls[g].remaining = CutResult(p, given)

====
